---- MODULE Spec2Model ----
(***************************************************************************)
(* wx-server-graphql: the GraphQL request pipeline in its two bindings,    *)
(* the cloud-function handler graphqlWXServer and the HTTP middleware      *)
(* returned by graphqlHTTP.  One invocation of a handler is modelled from  *)
(* its entry to its return; pc is the position inside the handler.         *)
(* The GraphQL engine (validateSchema, parse, validate, getOperationAST,   *)
(* execute, formatError), body parsing, content negotiation and the        *)
(* explorer renderer are collaborators: they are modelled by what they     *)
(* answer on a small set of concrete inputs.                               *)
(***************************************************************************)
EXTENDS FiniteSets, Integers, Sequences, TLC

VARIABLES variant, pc, options, request, params, optionsData, formatErrorFn,
          pretty, showGraphiQL, graphiqlOptions, documentAST, err, result,
          response, calls, executions, returned, optionsResult, suspended

\* All but suspended belong to the running invocation; suspended holds the
\* same of an invocation that waits at an await, or Unset when there is none.
vars == <<variant, pc, options, request, params, optionsData, formatErrorFn,
          pretty, showGraphiQL, graphiqlOptions, documentAST, err, result,
          response, calls, executions, returned, optionsResult, suspended>>

\* Longest list of errors a collaborator answers with.
MaxErrors == 2

(***************************************************************************)
(* JavaScript values: a type tag and a payload.                            *)
(***************************************************************************)
Undefined == [t |-> "undefined", v |-> ""]
Null == [t |-> "null", v |-> ""]
Str(s) == [t |-> "string", v |-> s]
Num(s) == [t |-> "number", v |-> s]
Obj(s) == [t |-> "object", v |-> s]
Bool(s) == [t |-> "boolean", v |-> s]

\* typeof x
TypeOf(x) == IF x.t = "null" THEN "object" ELSE x.t

\* x == null
IsNullish(x) == x.t \in {"undefined", "null"}

\* a ?? b
Coalesce(a, b) == IF IsNullish(a) THEN b ELSE a

\* A value that stands for "not assigned yet" in a variable of the handler.
Unset == [t |-> "unset", v |-> ""]

(***************************************************************************)
(* JSON.parse on the texts that occur as variables.                        *)
(***************************************************************************)
JSONObjectText == "{\"dice\":1,\"sides\":3}"
JSONNumberText == "1"
JSONNullText == "null"
JSONBrokenText == "{dice"
JSONEmptyText == ""

JSONValid(s) == s \in {JSONObjectText, JSONNumberText, JSONNullText}

JSONParse(s) ==
    CASE s = JSONObjectText -> Obj(JSONObjectText)
      [] s = JSONNumberText -> Num("1")
      [] s = JSONNullText -> Null

(***************************************************************************)
(* Failures.  httpError builds the tagged failure; a thrown Error of the   *)
(* runtime or of a collaborator is a record with a name and a message.     *)
(***************************************************************************)
NoDetails == [x \in {} |-> ""]

httpError(statusCode, message, errDtails) ==
    errDtails @@ [statusCode |-> statusCode, message |-> message]

Error(name, message) == [name |-> name, message |-> message]

\* The i-th error of a list a collaborator answers with.
GraphQLError(kind, i) == [name |-> "GraphQLError", message |-> kind, idx |-> i]

ErrorList(kind, k) == [i \in 1..k |-> GraphQLError(kind, i)]

Ok(value) == [ok |-> TRUE, value |-> value]
Throw(error) == [ok |-> FALSE, error |-> error]

\* What a caller's function throws or rejects with: an Error, or a value
\* that is none (throw null, Promise.reject()).
ThrowKinds == {"Error", "null", "undefined"}

Thrown(kind) ==
    CASE kind = "Error" -> Error("Error", "thrown by the caller's function")
      [] kind = "null" -> Null
      [] kind = "undefined" -> Undefined

\* A function of the caller that throws Thrown(kind) when it is called.
ThrowingFn(kind) == [t |-> "function", v |-> kind]

\* Reading a property of the caught value, as error.graphqlErrors and
\* error.status do, throws a TypeError on null and undefined.
Unreadable(error) == "t" \in DOMAIN error /\ error.t \in {"null", "undefined"}

NotReadable(error) == Error("TypeError", "Cannot read properties of " \o error.t)

\* What a handler leaves when its promise rejects.
Rejected(error) == [rejected |-> error]

(***************************************************************************)
(* The GraphQL engine on the query texts of the model.                     *)
(***************************************************************************)
QSyntaxError == "{ hello"
QUnknownField == "{ nope }"
QQuery == "query RollDice { rollDice }"
QMutation == "mutation RollDice { roll }"
QueryTexts == {QSyntaxError, QUnknownField, QQuery, QMutation}

\* parse(source): the document, or a thrown syntax error.
parseFn(query) ==
    IF query.v = QSyntaxError
    THEN Throw(Error("GraphQLError", "Syntax Error"))
    ELSE Ok([kind |-> "Document", source |-> query.v])

\* Whether validate(schema, document, rules) answers a non-empty list.
DocumentInvalid(document) == document.source = QUnknownField

\* Whether validateSchema(schema) answers a non-empty list.
SchemaInvalid(schema) == schema.v = "invalidSchema"

NoOperation == [operation |-> "none"]

\* getOperationAST(document, operationName)
getOperationAST(document, operationName) ==
    IF ~IsNullish(operationName) /\ operationName.v # "RollDice"
    THEN NoOperation
    ELSE IF document.source = QMutation
         THEN [operation |-> "mutation"]
         ELSE [operation |-> "query"]

\* What execute(args) can answer: a result with data, a result with data and
\* field errors, a result without data, or a thrown error.
ExecuteOutcomes ==
    {Ok([data |-> Obj("data")])}
    \cup {Ok([data |-> Obj("data"), errors |-> ErrorList("field", k)]) : k \in 1..MaxErrors}
    \cup {Ok([data |-> Null, errors |-> ErrorList("field", k)]) : k \in 1..MaxErrors}
    \cup {Throw(Error("Error", "context"))}

(***************************************************************************)
(* Error formatting functions, named by where they come from.              *)
(***************************************************************************)
\* formatErrorFn(error)
ApplyFormat(fn, error) == [formattedBy |-> fn, message |-> error.message]

\* optionsData.customFormatErrorFn ?? optionsData.formatError ?? formatErrorFn
ChooseFormat(opts, current) ==
    IF opts.customFormatErrorFn THEN "customFormatErrorFn"
    ELSE IF opts.formatError THEN "options.formatError"
    ELSE current

(***************************************************************************)
(* Cloud-function variant: getGraphQLParams(param).                        *)
(***************************************************************************)
getGraphQLParams(param) ==
    IF IsNullish(param)
    THEN Throw(Error("TypeError", "Cannot read properties of undefined"))
    ELSE LET query == IF TypeOf(param.query) # "string" THEN Null ELSE param.query
             operationName == IF TypeOf(param.operationName) # "string"
                              THEN Null ELSE param.operationName
             raw == param.raw
         IN  IF TypeOf(param.variables) = "string"
             THEN IF JSONValid(param.variables.v)
                  THEN Ok([query |-> query,
                           variables |-> JSONParse(param.variables.v),
                           operationName |-> operationName, raw |-> raw])
                  ELSE Throw(httpError(400, "Variables are invalid JSON.", NoDetails))
             ELSE Ok([query |-> query,
                      variables |-> IF TypeOf(param.variables) # "object"
                                    THEN Null ELSE param.variables,
                      operationName |-> operationName, raw |-> raw])

(***************************************************************************)
(* Inputs of the cloud-function variant.                                   *)
(***************************************************************************)
WXQueryValues == {Undefined, Num("42")} \cup {Str(q) : q \in QueryTexts}

WXVariablesValues ==
    {Undefined, Null, Num("7"), Obj(JSONObjectText), Str(JSONObjectText),
     Str(JSONNumberText), Str(JSONNullText), Str(JSONBrokenText), Str(JSONEmptyText)}

WXOperationNames == {Undefined, Str("RollDice"), Str("Other")}

WXRawValues == {Undefined, Bool("true")}

WXEvents ==
    {Undefined} \cup
    [t : {"object"}, query : WXQueryValues, variables : WXVariablesValues,
     operationName : WXOperationNames, raw : WXRawValues]

SchemaValues == {Undefined, Obj("validSchema"), Obj("invalidSchema")}

\* The caller's validate function: none (the engine's validate), or one
\* that throws.
ValidateFns == {Undefined} \cup {ThrowingFn(k) : k \in ThrowKinds}

WXOptions ==
    [wxParams : WXEvents, schema : SchemaValues, rootValue : {Obj("root")},
     context : {Undefined, Obj("context")},
     customFormatErrorFn : BOOLEAN, formatError : BOOLEAN, pretty : {FALSE},
     customValidateFn : {Undefined}]
    \cup
    [wxParams : {e \in WXEvents : e # Undefined /\ e.variables = Undefined
                                   /\ e.operationName = Undefined /\ e.raw = Undefined},
     schema : SchemaValues, rootValue : {Obj("root")}, context : {Undefined},
     customFormatErrorFn : {FALSE}, formatError : {FALSE}, pretty : {FALSE},
     customValidateFn : ValidateFns]

(***************************************************************************)
(* graphqlWXServer(options), step by step.                                 *)
(***************************************************************************)
\* await getGraphQLParams(options.wxParams), then the reading of the options.
wxGetParams ==
    /\ variant = "wx" /\ pc = "start"
    /\ LET r == getGraphQLParams(options.wxParams)
       IN  IF r.ok
           THEN /\ params' = r.value
                /\ pretty' = options.pretty
                /\ formatErrorFn' = ChooseFormat(options, formatErrorFn)
                /\ pc' = "checkSchema"
                /\ err' = err
           ELSE /\ err' = r.error
                /\ pc' = "catch"
                /\ UNCHANGED <<params, pretty, formatErrorFn>>
    /\ UNCHANGED <<suspended, variant, optionsResult, options, request, optionsData, showGraphiQL,
                   graphiqlOptions, documentAST, result, response, calls,
                   executions, returned>>

\* if (schema == null) throw httpError(500, ...)
wxCheckSchema ==
    /\ variant = "wx" /\ pc = "checkSchema"
    /\ IF IsNullish(options.schema)
       THEN /\ err' = httpError(500, "GraphQL middleware options must contain a schema.", NoDetails)
            /\ pc' = "catch"
       ELSE /\ pc' = "checkQuery"
            /\ err' = err
    /\ UNCHANGED <<suspended, variant, optionsResult, options, request, params, optionsData, formatErrorFn,
                   pretty, showGraphiQL, graphiqlOptions, documentAST, result,
                   response, calls, executions, returned>>

\* if (query == null) throw httpError(400, 'Must provide query string.')
wxCheckQuery ==
    /\ variant = "wx" /\ pc = "checkQuery"
    /\ IF IsNullish(params.query)
       THEN /\ err' = httpError(400, "Must provide query string.", NoDetails)
            /\ pc' = "catch"
       ELSE /\ pc' = "validateSchema"
            /\ err' = err
    /\ UNCHANGED <<suspended, variant, optionsResult, options, request, params, optionsData, formatErrorFn,
                   pretty, showGraphiQL, graphiqlOptions, documentAST, result,
                   response, calls, executions, returned>>

\* validateSchema(schema); a non-empty answer is thrown as a 500.
wxValidateSchema ==
    /\ variant = "wx" /\ pc = "validateSchema"
    /\ calls' = Append(calls, "validateSchema")
    /\ IF SchemaInvalid(options.schema)
       THEN \E k \in 1..MaxErrors :
              /\ err' = httpError(500, "GraphQL schema validation error.",
                                  [graphqlErrors |-> ErrorList("schema", k)])
              /\ pc' = "catch"
       ELSE /\ pc' = "parse"
            /\ err' = err
    /\ UNCHANGED <<suspended, variant, optionsResult, options, request, params, optionsData, formatErrorFn,
                   pretty, showGraphiQL, graphiqlOptions, documentAST, result,
                   response, executions, returned>>

\* parseFn(new Source(query)); a syntax error is thrown as a 400.
wxParse ==
    /\ variant = "wx" /\ pc = "parse"
    /\ calls' = Append(calls, "parse")
    /\ LET r == parseFn(params.query)
       IN  IF r.ok
           THEN /\ documentAST' = r.value
                /\ pc' = "validate"
                /\ err' = err
           ELSE /\ err' = httpError(400, "GraphQL syntax error.",
                                    [graphqlErrors |-> <<r.error>>])
                /\ pc' = "catch"
                /\ documentAST' = documentAST
    /\ UNCHANGED <<suspended, variant, optionsResult, options, request, params, optionsData, formatErrorFn,
                   pretty, showGraphiQL, graphiqlOptions, result, response,
                   executions, returned>>

\* validateFn(schema, documentAST, rules); a non-empty answer is thrown as a
\* 400, and what the caller's validate function throws goes to the boundary
\* as it is.
wxValidate ==
    /\ variant = "wx" /\ pc = "validate"
    /\ calls' = Append(calls, "validate")
    /\ IF options.customValidateFn # Undefined
       THEN /\ err' = Thrown(options.customValidateFn.v)
            /\ pc' = "catch"
       ELSE IF DocumentInvalid(documentAST)
       THEN \E k \in 1..MaxErrors :
              /\ err' = httpError(400, "GraphQL validation error.",
                                  [graphqlErrors |-> ErrorList("validation", k)])
              /\ pc' = "catch"
       ELSE /\ pc' = "execute"
            /\ err' = err
    /\ UNCHANGED <<suspended, variant, optionsResult, options, request, params, optionsData, formatErrorFn,
                   pretty, showGraphiQL, graphiqlOptions, documentAST, result,
                   response, executions, returned>>

\* An executor call that hands over the event's variables unparsed.
wxExecutionArgs_RawVariables ==
    [schema |-> options.schema, document |-> documentAST,
     rootValue |-> options.rootValue, contextValue |-> options.context,
     variableValues |-> options.wxParams.variables,
     operationName |-> params.operationName]

\* The arguments graphqlWXServer hands to executeFn.
wxExecutionArgs ==
    [schema |-> options.schema, document |-> documentAST,
     rootValue |-> options.rootValue, contextValue |-> options.context,
     variableValues |-> params.variables, operationName |-> params.operationName]

\* result = await executeFn({...}); a thrown error is rethrown as a 400.
wxExecute ==
    /\ variant = "wx" /\ pc = "execute"
    /\ calls' = Append(calls, "execute")
    /\ \E r \in ExecuteOutcomes :
       /\ executions' = Append(executions, [args |-> wxExecutionArgs, outcome |-> r])
       /\ IF r.ok
         THEN /\ result' = r.value
              /\ pc' = "return"
              /\ err' = err
         ELSE /\ err' = httpError(400, "GraphQL execution context error.",
                                  [graphqlErrors |-> <<r.error>>])
              /\ pc' = "catch"
              /\ result' = result
    /\ UNCHANGED <<suspended, variant, optionsResult, options, request, params, optionsData, formatErrorFn,
                   pretty, showGraphiQL, graphiqlOptions, documentAST, response,
                   returned>>

\* error.graphqlErrors || [error]
wxFailureErrors(error) ==
    IF "graphqlErrors" \in DOMAIN error THEN error.graphqlErrors ELSE <<error>>

\* catch (error) { result = { data: undefined, errors: ... } }; the reading
\* of error.graphqlErrors throws when the caught value is null or undefined,
\* and the promise of graphqlWXServer rejects.
wxCatch ==
    /\ variant = "wx" /\ pc = "catch"
    /\ IF Unreadable(err)
       THEN /\ returned' = Rejected(NotReadable(err))
            /\ pc' = "rejected"
            /\ result' = result
       ELSE /\ result' = [data |-> Undefined, errors |-> wxFailureErrors(err)]
            /\ pc' = "return"
            /\ returned' = returned
    /\ UNCHANGED <<suspended, variant, optionsResult, options, request, params, optionsData,
                   formatErrorFn, pretty, showGraphiQL, graphiqlOptions, documentAST, err,
                   response, calls, executions>>

\* return result
wxReturn ==
    /\ variant = "wx" /\ pc = "return"
    /\ returned' = result
    /\ pc' = "done"
    /\ UNCHANGED <<suspended, variant, optionsResult, options, request, params, optionsData, formatErrorFn,
                   pretty, showGraphiQL, graphiqlOptions, documentAST, err, result,
                   response, calls, executions>>

graphqlWXServer ==
    \/ wxGetParams \/ wxCheckSchema \/ wxCheckQuery \/ wxValidateSchema
    \/ wxParse \/ wxValidate \/ wxExecute \/ wxCatch \/ wxReturn

(***************************************************************************)
(* HTTP variant: the request, the response and the helpers.                *)
(***************************************************************************)
\* Truthiness of a value, as !x reads it.
Truthy(x) ==
    CASE x.t = "boolean" -> x.v = "true"
      [] x.t = "string" -> x.v # ""
      [] x.t = "number" -> x.v # "0"
      [] x.t = "object" -> TRUE
      [] OTHER -> FALSE

HeaderNames == {"Allow", "Content-Type", "Content-Length"}

\* response.setHeader(key, value)
setHeader(resp, key, value) == [resp EXCEPT !.headers[key] = value]

\* sendResponse(response, type, data): two headers and response.end(chunk).
sendResponse(resp, type, data) ==
    LET r1 == setHeader(resp, "Content-Type", type)
        r2 == setHeader(r1, "Content-Length", "length")
    IN  [r2 EXCEPT !.writes = Append(@, [via |-> "end", type |-> type, payload |-> data])]

\* response.json(body) of the hosting framework.
responseJson(resp, body) ==
    [resp EXCEPT !.writes = Append(@, [via |-> "json", type |-> "application/json",
                                       payload |-> body])]

\* respondWithGraphiQL(response, options, params, result)
respondWithGraphiQL(resp, gOptions, gParams, gResult) ==
    LET data == [query |-> IF gParams = Undefined THEN Undefined ELSE gParams.query,
                 variables |-> IF gParams = Undefined THEN Undefined ELSE gParams.variables,
                 operationName |-> IF gParams = Undefined THEN Undefined
                                   ELSE gParams.operationName,
                 result |-> gResult]
    IN  sendResponse(resp, "text/html", [graphiql |-> data, options |-> gOptions])

\* canDisplayGraphiQL(request, params)
canDisplayGraphiQL(req, p) == ~Truthy(p.raw) /\ req.accept = "html"

\* getGraphQLParams(request) of the HTTP variant: URL parameters before body fields.
getGraphQLParamsHTTP(req) ==
    LET urlData == req.url
        bodyData == req.body
        q0 == Coalesce(urlData.query, bodyData.query)
        query == IF TypeOf(q0) # "string" THEN Null ELSE q0
        v0 == Coalesce(urlData.variables, bodyData.variables)
        o0 == Coalesce(urlData.operationName, bodyData.operationName)
        operationName == IF TypeOf(o0) # "string" THEN Null ELSE o0
        raw == IF ~IsNullish(urlData.raw) \/ bodyData.raw # Undefined
               THEN Bool("true") ELSE Bool("false")
    IN  IF TypeOf(v0) = "string"
        THEN IF JSONValid(v0.v)
             THEN Ok([query |-> query, variables |-> JSONParse(v0.v),
                      operationName |-> operationName, raw |-> raw])
             ELSE Throw(httpError(400, "Variables are invalid JSON.", NoDetails))
        ELSE Ok([query |-> query,
                 variables |-> IF TypeOf(v0) # "object" THEN Null ELSE v0,
                 operationName |-> operationName, raw |-> raw])

\* resolveOptions: the check of what the options function (or literal) gave;
\* what the function throws or rejects with leaves resolveOptions as it is.
resolveOptions(resolved) ==
    IF resolved.t = "rejection" THEN Throw(Thrown(resolved.v))
    ELSE IF IsNullish(resolved) \/ TypeOf(resolved) # "object"
    THEN Throw(Error("Error", "GraphQL middleware option function must return an options object or a promise which will be resolved to an options object."))
    ELSE Ok(resolved)

(***************************************************************************)
(* Inputs of the HTTP variant.                                             *)
(***************************************************************************)
\* URLSearchParams.get answers a string or null.
UrlFields ==
    [query : {Null} \cup {Str(q) : q \in QueryTexts},
     variables : {Null, Str(JSONObjectText), Str(JSONBrokenText), Str(JSONEmptyText)},
     operationName : {Null, Str("RollDice"), Str("Other")},
     raw : {Null, Str("")}]

EmptyUrl == [query |-> Null, variables |-> Null, operationName |-> Null, raw |-> Null]
EmptyBody == [query |-> Undefined, variables |-> Undefined,
              operationName |-> Undefined, raw |-> Undefined]

\* Parsed bodies: fields of any type, next to an empty URL or under a URL that
\* carries the same fields.
BodyFields ==
    [query : {Undefined, Num("42"), Str(QQuery)},
     variables : {Undefined, Num("7"), Obj(JSONObjectText), Str(JSONNumberText),
                  Str(JSONBrokenText)},
     operationName : {Undefined},
     raw : {Undefined, Bool("false")}]

HTTPMethods == {"GET", "POST", "PUT"}
AcceptTypes == {"json", "html"}

HTTPRequests ==
    [method : HTTPMethods, accept : AcceptTypes, url : UrlFields, body : {EmptyBody}]
    \cup [method : {"POST"}, accept : AcceptTypes, url : {EmptyUrl}, body : BodyFields]
    \cup [method : {"GET"}, accept : {"json"},
          url : {[query |-> Str(QMutation), variables |-> Str(JSONObjectText),
                  operationName |-> Null, raw |-> Null]},
          body : BodyFields]

GraphiQLValues == {Undefined, Bool("false"), Bool("true"), Obj("graphiqlOptions")}

\* What the options resolve to: an options object, or something that is none.
OptionsObjects ==
    [t : {"object"}, schema : SchemaValues, graphiql : GraphiQLValues,
     customFormatErrorFn : BOOLEAN, formatError : BOOLEAN,
     pretty : {FALSE}, context : {Undefined}, rootValue : {Obj("root")},
     extensions : {FALSE}, customValidateFn : {Undefined}]
    \cup
    [t : {"object"}, schema : {Obj("validSchema")}, graphiql : {Undefined, Bool("true")},
     customFormatErrorFn : {FALSE}, formatError : {FALSE},
     pretty : BOOLEAN, context : {Undefined, Obj("context")}, rootValue : {Obj("root")},
     extensions : BOOLEAN, customValidateFn : {Undefined}]
    \cup
    [t : {"object"}, schema : {Obj("validSchema")}, graphiql : {Undefined, Bool("true")},
     customFormatErrorFn : {FALSE}, formatError : {FALSE},
     pretty : {FALSE}, context : {Undefined}, rootValue : {Obj("root")},
     extensions : {FALSE}, customValidateFn : ValidateFns]

\* An options function that throws, or whose promise rejects.
OptionsRejections == {[t |-> "rejection", v |-> k] : k \in ThrowKinds}

OptionsResults == OptionsObjects \cup {Null, Str("not an object")} \cup OptionsRejections

\* What the extensions function can answer.
ExtensionsOutcomes ==
    {Ok(Undefined), Ok(Obj("extensions")), Throw(Error("Error", "extensions"))}
    \cup {Throw(Thrown(k)) : k \in {"null", "undefined"}}

EmptyResponse(hasJson) ==
    [statusCode |-> 200, headers |-> [h \in HeaderNames |-> ""], writes |-> <<>>,
     json |-> hasJson]

(***************************************************************************)
(* graphqlMiddleware(request, response), step by step.                     *)
(***************************************************************************)
\* params = await getGraphQLParams(request)
httpGetParams ==
    /\ variant = "http" /\ pc = "start"
    /\ LET r == getGraphQLParamsHTTP(request)
       IN  IF r.ok
           THEN /\ params' = r.value
                /\ pc' = "resolveOptions"
                /\ err' = err
           ELSE /\ err' = r.error
                /\ pc' = "resolveOptionsOnError"
                /\ params' = params
    /\ UNCHANGED <<suspended, variant, optionsResult, options, request, optionsData, formatErrorFn, pretty,
                   showGraphiQL, graphiqlOptions, documentAST, result, response,
                   calls, executions, returned>>

\* A catch around getGraphQLParams that rethrows without resolving the options.
httpResolveOptionsOnError_Skipped ==
    /\ variant = "http" /\ pc = "resolveOptionsOnError"
    /\ pc' = "catch"
    /\ UNCHANGED <<suspended, variant, optionsResult, options, request, params, optionsData,
                   formatErrorFn, pretty, showGraphiQL, graphiqlOptions, documentAST,
                   err, result, response, calls, executions, returned>>

\* The catch around getGraphQLParams: resolve the options for pretty and the
\* formatter, then rethrow the extraction error.  optionsData is here the
\* constant of the catch block.
httpResolveOptionsOnError ==
    /\ variant = "http" /\ pc = "resolveOptionsOnError"
    /\ calls' = Append(calls, "resolveOptions")
    /\ \E resolved \in OptionsResults :
         LET r == resolveOptions(resolved)
         IN  /\ optionsResult' = resolved
             /\ IF r.ok
                THEN /\ optionsData' = r.value
                     /\ pretty' = r.value.pretty
                     /\ formatErrorFn' = ChooseFormat(r.value, formatErrorFn)
                     /\ err' = err
                ELSE /\ err' = r.error
                     /\ UNCHANGED <<optionsData, pretty, formatErrorFn>>
    /\ pc' = "catch"
    /\ UNCHANGED <<suspended, variant, options, request, params, showGraphiQL,
                   graphiqlOptions, documentAST, result, response, executions,
                   returned>>

\* optionsData = await resolveOptions(params), then the reading of the options.
httpResolveOptions ==
    /\ variant = "http" /\ pc = "resolveOptions"
    /\ calls' = Append(calls, "resolveOptions")
    /\ \E resolved \in OptionsResults :
         LET r == resolveOptions(resolved)
         IN  /\ optionsResult' = resolved
             /\ IF r.ok
                THEN /\ optionsData' = r.value
                     /\ pretty' = r.value.pretty
                     /\ formatErrorFn' = ChooseFormat(r.value, formatErrorFn)
                     /\ pc' = "checkSchema"
                     /\ err' = err
                ELSE /\ err' = r.error
                     /\ pc' = "catch"
                     /\ UNCHANGED <<optionsData, pretty, formatErrorFn>>
    /\ UNCHANGED <<suspended, variant, options, request, params, showGraphiQL, graphiqlOptions,
                   documentAST, result, response, executions, returned>>

\* A middleware that does not look at the schema before the method check.
httpCheckSchema_Skipped ==
    /\ variant = "http" /\ pc = "checkSchema"
    /\ pc' = "checkMethod"
    /\ UNCHANGED <<suspended, variant, optionsResult, options, request, params, optionsData,
                   formatErrorFn, pretty, showGraphiQL, graphiqlOptions, documentAST,
                   err, result, response, calls, executions, returned>>

\* if (schema == null) throw httpError(500, ...)
httpCheckSchema ==
    /\ variant = "http" /\ pc = "checkSchema"
    /\ IF IsNullish(optionsData.schema)
       THEN /\ err' = httpError(500, "GraphQL middleware options must contain a schema.", NoDetails)
            /\ pc' = "catch"
       ELSE /\ pc' = "checkMethod"
            /\ err' = err
    /\ UNCHANGED <<suspended, variant, optionsResult, options, request, params, optionsData, formatErrorFn,
                   pretty, showGraphiQL, graphiqlOptions, documentAST, result,
                   response, calls, executions, returned>>

\* if (request.method !== 'GET' && request.method !== 'POST') throw httpError(405, ...)
httpCheckMethod ==
    /\ variant = "http" /\ pc = "checkMethod"
    /\ IF request.method # "GET" /\ request.method # "POST"
       THEN /\ err' = httpError(405, "GraphQL only supports GET and POST requests.",
                                [headers |-> [Allow |-> "GET, POST"]])
            /\ pc' = "catch"
       ELSE /\ pc' = "checkQuery"
            /\ err' = err
    /\ UNCHANGED <<suspended, variant, optionsResult, options, request, params, optionsData, formatErrorFn,
                   pretty, showGraphiQL, graphiqlOptions, documentAST, result,
                   response, calls, executions, returned>>

\* optionsData.graphiql ?? false
graphiqlOf(opts) == Coalesce(opts.graphiql, Bool("false"))

\* An explorer decision that does not look at the graphiql option.
ShowGraphiQL_IgnoringOption(req, p, opts) == canDisplayGraphiQL(req, p)

\* canDisplayGraphiQL(request, params) && graphiql !== false
ShowGraphiQL(req, p, opts) ==
    canDisplayGraphiQL(req, p) /\ graphiqlOf(opts) # Bool("false")

\* The explorer decision, then: no query shows the explorer or throws a 400.
httpCheckQuery ==
    /\ variant = "http" /\ pc = "checkQuery"
    /\ showGraphiQL' = ShowGraphiQL(request, params, optionsData)
    /\ graphiqlOptions' = IF TypeOf(graphiqlOf(optionsData)) # "boolean"
                          THEN graphiqlOf(optionsData) ELSE graphiqlOptions
    /\ IF IsNullish(params.query)
       THEN IF showGraphiQL'
            THEN /\ response' = respondWithGraphiQL(response, graphiqlOptions',
                                                    Undefined, Undefined)
                 /\ returned' = Undefined
                 /\ pc' = "done"
                 /\ err' = err
            ELSE /\ err' = httpError(400, "Must provide query string.", NoDetails)
                 /\ pc' = "catch"
                 /\ UNCHANGED <<response, returned>>
       ELSE /\ pc' = "validateSchema"
            /\ UNCHANGED <<err, response, returned>>
    /\ UNCHANGED <<suspended, variant, optionsResult, options, request, params, optionsData, formatErrorFn,
                   pretty, documentAST, result, calls, executions>>

\* validateSchema(schema); a non-empty answer is thrown as a 500.
httpValidateSchema ==
    /\ variant = "http" /\ pc = "validateSchema"
    /\ calls' = Append(calls, "validateSchema")
    /\ IF SchemaInvalid(optionsData.schema)
       THEN \E k \in 1..MaxErrors :
              /\ err' = httpError(500, "GraphQL schema validation error.",
                                  [graphqlErrors |-> ErrorList("schema", k)])
              /\ pc' = "catch"
       ELSE /\ pc' = "parse"
            /\ err' = err
    /\ UNCHANGED <<suspended, variant, optionsResult, options, request, params, optionsData, formatErrorFn,
                   pretty, showGraphiQL, graphiqlOptions, documentAST, result,
                   response, executions, returned>>

\* parseFn(new Source(query)); a syntax error is thrown as a 400.
httpParse ==
    /\ variant = "http" /\ pc = "parse"
    /\ calls' = Append(calls, "parse")
    /\ LET r == parseFn(params.query)
       IN  IF r.ok
           THEN /\ documentAST' = r.value
                /\ pc' = "validate"
                /\ err' = err
           ELSE /\ err' = httpError(400, "GraphQL syntax error.",
                                    [graphqlErrors |-> <<r.error>>])
                /\ pc' = "catch"
                /\ documentAST' = documentAST
    /\ UNCHANGED <<suspended, variant, optionsResult, options, request, params, optionsData, formatErrorFn,
                   pretty, showGraphiQL, graphiqlOptions, result, response,
                   executions, returned>>

\* validateFn(schema, documentAST, rules); a non-empty answer is thrown as a
\* 400, and what the caller's validate function throws goes to the boundary
\* as it is.
httpValidate ==
    /\ variant = "http" /\ pc = "validate"
    /\ calls' = Append(calls, "validate")
    /\ IF optionsData.customValidateFn # Undefined
       THEN /\ err' = Thrown(optionsData.customValidateFn.v)
            /\ pc' = "catch"
       ELSE IF DocumentInvalid(documentAST)
       THEN \E k \in 1..MaxErrors :
              /\ err' = httpError(400, "GraphQL validation error.",
                                  [graphqlErrors |-> ErrorList("validation", k)])
              /\ pc' = "catch"
       ELSE /\ pc' = "getGuard"
            /\ err' = err
    /\ UNCHANGED <<suspended, variant, optionsResult, options, request, params, optionsData, formatErrorFn,
                   pretty, showGraphiQL, graphiqlOptions, documentAST, result,
                   response, executions, returned>>

\* The message of the 405 of the read-only guard.
GuardMessage(operation) ==
    IF operation = "mutation"
    THEN "Can only perform a mutation operation from a POST request."
    ELSE "Can only perform a subscription operation from a POST request."

\* Whether the GET guard stops the request: a GET whose selected operation
\* exists and is no query.
GuardStops(req, document, operationName) ==
    /\ req.method = "GET"
    /\ getOperationAST(document, operationName) # NoOperation
    /\ getOperationAST(document, operationName).operation # "query"

\* if (request.method === 'GET') { ... } : the explorer, or a 405 with Allow: POST.
httpGetGuard ==
    /\ variant = "http" /\ pc = "getGuard"
    /\ IF GuardStops(request, documentAST, params.operationName)
       THEN IF showGraphiQL
            THEN /\ response' = respondWithGraphiQL(response, graphiqlOptions,
                                                    params, Undefined)
                 /\ returned' = Undefined
                 /\ pc' = "done"
                 /\ err' = err
            ELSE /\ err' = httpError(405,
                      GuardMessage(getOperationAST(documentAST, params.operationName).operation),
                      [headers |-> [Allow |-> "POST"]])
                 /\ pc' = "catch"
                 /\ UNCHANGED <<response, returned>>
       ELSE /\ pc' = "execute"
            /\ UNCHANGED <<err, response, returned>>
    /\ UNCHANGED <<suspended, variant, optionsResult, options, request, params, optionsData, formatErrorFn,
                   pretty, showGraphiQL, graphiqlOptions, documentAST, result,
                   calls, executions>>

\* The arguments graphqlMiddleware hands to executeFn.
httpExecutionArgs ==
    [schema |-> optionsData.schema, document |-> documentAST,
     rootValue |-> optionsData.rootValue,
     contextValue |-> IF IsNullish(optionsData.context)
                      THEN Obj("request") ELSE optionsData.context,
     variableValues |-> params.variables, operationName |-> params.operationName]

\* result = await executeFn({...}); a thrown error is rethrown as a 400.
httpExecute ==
    /\ variant = "http" /\ pc = "execute"
    /\ calls' = Append(calls, "execute")
    /\ \E r \in ExecuteOutcomes :
       /\ executions' = Append(executions, [args |-> httpExecutionArgs, outcome |-> r])
       /\ IF r.ok
         THEN /\ result' = r.value
              /\ pc' = IF optionsData.extensions THEN "extensions" ELSE "respond"
              /\ err' = err
         ELSE /\ err' = httpError(400, "GraphQL execution context error.",
                                  [graphqlErrors |-> <<r.error>>])
              /\ pc' = "catch"
              /\ result' = result
    /\ UNCHANGED <<suspended, variant, optionsResult, options, request, params, optionsData, formatErrorFn,
                   pretty, showGraphiQL, graphiqlOptions, documentAST, response,
                   returned>>

\* extensions = await extensionsFn({...}); a non-null answer joins the result.
httpExtensions ==
    /\ variant = "http" /\ pc = "extensions"
    /\ calls' = Append(calls, "extensions")
    /\ \E r \in ExtensionsOutcomes :
         IF r.ok
         THEN /\ result' = IF IsNullish(r.value) THEN result
                           ELSE [extensions |-> r.value] @@ result
              /\ pc' = "respond"
              /\ err' = err
         ELSE /\ err' = r.error
              /\ pc' = "catch"
              /\ result' = result
    /\ UNCHANGED <<suspended, variant, optionsResult, options, request, params, optionsData, formatErrorFn,
                   pretty, showGraphiQL, graphiqlOptions, documentAST, response,
                   executions, returned>>

\* error.status ?? 500
StatusOf(error) == IF "status" \in DOMAIN error THEN error.status ELSE 500

\* for (const [key, value] of Object.entries(headers)) response.setHeader(key, String(value))
setHeaders(resp, error) ==
    IF "headers" \in DOMAIN error
    THEN [resp EXCEPT !.headers = [h \in HeaderNames |->
                                     IF h \in DOMAIN error.headers
                                     THEN error.headers[h] ELSE @[h]]]
    ELSE resp

\* error.graphqlErrors ?? [error]
httpFailureErrors(error) ==
    IF "graphqlErrors" \in DOMAIN error THEN error.graphqlErrors ELSE <<error>>

\* catch (error) { status, headers, result = { data: undefined, errors: ... } };
\* the reading of error.status throws when the caught value is null or
\* undefined: the promise of graphqlMiddleware rejects, the response untouched.
httpCatch ==
    /\ variant = "http" /\ pc = "catch"
    /\ IF Unreadable(err)
       THEN /\ returned' = Rejected(NotReadable(err))
            /\ pc' = "rejected"
            /\ UNCHANGED <<response, result>>
       ELSE /\ response' = setHeaders([response EXCEPT !.statusCode = StatusOf(err)], err)
            /\ result' = [data |-> Undefined, errors |-> httpFailureErrors(err)]
            /\ pc' = "respond"
            /\ returned' = returned
    /\ UNCHANGED <<suspended, variant, optionsResult, options, request, params, optionsData,
                   formatErrorFn, pretty, showGraphiQL, graphiqlOptions, documentAST, err,
                   calls, executions>>

\* result.data == null
NoData(res) == IsNullish(res.data)

\* { ...result, errors: result.errors?.map(formatErrorFn) }
FormatResult(res, fn) ==
    IF "errors" \in DOMAIN res
    THEN [res EXCEPT !.errors = [i \in 1..Len(res.errors) |-> ApplyFormat(fn, res.errors[i])]]
    ELSE res

\* JSON.stringify(formattedResult, null, pretty ? 2 : 0): undefined members are left out.
Stringify(formatted, indent) ==
    [json |-> [k \in {f \in DOMAIN formatted : f = "data" => formatted[f] # Undefined}
                  |-> formatted[k]],
     indent |-> indent]

\* The status rule for a result without data, the formatting and the one write.
httpRespond ==
    /\ variant = "http" /\ pc = "respond"
    /\ LET r1 == IF response.statusCode = 200 /\ NoData(result)
                 THEN [response EXCEPT !.statusCode = 500] ELSE response
           formattedResult == FormatResult(result, formatErrorFn)
       IN  response' =
             IF showGraphiQL
             THEN respondWithGraphiQL(r1, graphiqlOptions, params, formattedResult)
             ELSE IF ~pretty /\ r1.json
                  THEN responseJson(r1, formattedResult)
                  ELSE sendResponse(r1, "application/json",
                                    Stringify(formattedResult, IF pretty THEN 2 ELSE 0))
    /\ returned' = Undefined
    /\ pc' = "done"
    /\ UNCHANGED <<suspended, variant, optionsResult, options, request, params, optionsData, formatErrorFn,
                   pretty, showGraphiQL, graphiqlOptions, documentAST, err, result,
                   calls, executions>>

graphqlMiddleware ==
    \/ httpGetParams \/ httpResolveOptionsOnError \/ httpResolveOptions
    \/ httpCheckSchema \/ httpCheckMethod \/ httpCheckQuery \/ httpValidateSchema
    \/ httpParse \/ httpValidate \/ httpGetGuard \/ httpExecute \/ httpExtensions
    \/ httpCatch \/ httpRespond

InitHTTP ==
    /\ variant = "http"
    /\ options = [t |-> "function", v |-> "options"]
    /\ request \in HTTPRequests
    /\ response \in {EmptyResponse(j) : j \in BOOLEAN}

InitWX ==
    /\ variant = "wx"
    /\ options \in WXOptions
    /\ request = Unset
    /\ response = Unset

Init ==
    /\ pc = "start"
    /\ params = Unset
    /\ optionsData = Unset
    /\ formatErrorFn = "formatError"
    /\ pretty = FALSE
    /\ showGraphiQL = FALSE
    /\ graphiqlOptions = Unset
    /\ documentAST = Unset
    /\ err = Unset
    /\ result = Unset
    /\ calls = <<>>
    /\ executions = <<>>
    /\ returned = Unset
    /\ optionsResult = Unset
    /\ suspended = Unset
    /\ (InitWX \/ InitHTTP)

Next == graphqlWXServer \/ graphqlMiddleware

Spec == Init /\ [][Next]_vars

(***************************************************************************)
(* Two invocations on one event loop.  The handlers are async functions:   *)
(* an invocation runs until it awaits, and another invocation runs in the  *)
(* meantime.  The variables above are those of the running invocation;     *)
(* suspended holds the ones of the invocation that waits (Unset when there *)
(* is a single invocation).                                                *)
(***************************************************************************)
\* What one invocation owns: its arguments and the bindings its body
\* declares, with its position and its own log of calls.
Locals ==
    [variant |-> variant, pc |-> pc, options |-> options, request |-> request,
     params |-> params, optionsData |-> optionsData, formatErrorFn |-> formatErrorFn,
     pretty |-> pretty, showGraphiQL |-> showGraphiQL,
     graphiqlOptions |-> graphiqlOptions, documentAST |-> documentAST, err |-> err,
     result |-> result, response |-> response, calls |-> calls,
     executions |-> executions, returned |-> returned, optionsResult |-> optionsResult]

\* The running invocation is l.
Running(l) ==
    /\ variant = l.variant /\ pc = l.pc /\ options = l.options
    /\ request = l.request /\ params = l.params
    /\ optionsData = l.optionsData /\ formatErrorFn = l.formatErrorFn
    /\ pretty = l.pretty /\ showGraphiQL = l.showGraphiQL
    /\ graphiqlOptions = l.graphiqlOptions /\ documentAST = l.documentAST
    /\ err = l.err /\ result = l.result /\ response = l.response
    /\ calls = l.calls /\ executions = l.executions
    /\ returned = l.returned /\ optionsResult = l.optionsResult

\* A handler whose pretty binding is declared outside its body: the
\* invocation that resumes finds what the other one left there.
Resume_SharedPretty(l) ==
    /\ variant' = l.variant /\ pc' = l.pc /\ options' = l.options
    /\ request' = l.request /\ params' = l.params
    /\ optionsData' = l.optionsData /\ formatErrorFn' = l.formatErrorFn
    /\ pretty' = pretty /\ showGraphiQL' = l.showGraphiQL
    /\ graphiqlOptions' = l.graphiqlOptions /\ documentAST' = l.documentAST
    /\ err' = l.err /\ result' = l.result /\ response' = l.response
    /\ calls' = l.calls /\ executions' = l.executions
    /\ returned' = l.returned /\ optionsResult' = l.optionsResult

\* The invocation l goes on: every name of the handler's body refers to the
\* binding of l again.
Resume(l) ==
    /\ variant' = l.variant /\ pc' = l.pc /\ options' = l.options
    /\ request' = l.request /\ params' = l.params
    /\ optionsData' = l.optionsData /\ formatErrorFn' = l.formatErrorFn
    /\ pretty' = l.pretty /\ showGraphiQL' = l.showGraphiQL
    /\ graphiqlOptions' = l.graphiqlOptions /\ documentAST' = l.documentAST
    /\ err' = l.err /\ result' = l.result /\ response' = l.response
    /\ calls' = l.calls /\ executions' = l.executions
    /\ returned' = l.returned /\ optionsResult' = l.optionsResult

\* The positions at which a handler awaits: getGraphQLParams, resolveOptions,
\* executeFn and extensionsFn.
AwaitPoints == {"start", "resolveOptions", "resolveOptionsOnError", "execute", "extensions"}

\* The running invocation awaits, has returned or has rejected, and the event
\* loop goes on with the other invocation.
Switch ==
    /\ suspended # Unset
    /\ pc \in AwaitPoints \cup {"done", "rejected"}
    /\ suspended.pc \notin {"done", "rejected"}
    /\ suspended' = Locals
    /\ Resume(suspended)

\* The state of an invocation when its handler is called.
Invoked(v, o, req, resp) ==
    [variant |-> v, pc |-> "start", options |-> o, request |-> req,
     params |-> Unset, optionsData |-> Unset, formatErrorFn |-> "formatError",
     pretty |-> FALSE, showGraphiQL |-> FALSE, graphiqlOptions |-> Unset,
     documentAST |-> Unset, err |-> Unset, result |-> Unset, response |-> resp,
     calls |-> <<>>, executions |-> <<>>, returned |-> Unset, optionsResult |-> Unset]

\* The requests and events of the concurrent invocations: a query that is
\* executed, a mutation on GET, undecodable variables, and for the cloud
\* function a query with variables, a syntax error and a validate function
\* that throws null.
ConcHTTPRequests ==
    {[method |-> "POST", accept |-> "json", body |-> EmptyBody,
      url |-> [EmptyUrl EXCEPT !.query = Str(QQuery)]],
     [method |-> "GET", accept |-> "html", body |-> EmptyBody,
      url |-> [EmptyUrl EXCEPT !.query = Str(QMutation)]],
     [method |-> "GET", accept |-> "json", body |-> EmptyBody,
      url |-> [EmptyUrl EXCEPT !.variables = Str(JSONBrokenText)]]}

ConcWXOptions ==
    {o \in WXOptions :
        /\ o.schema = Obj("validSchema") /\ o.context = Undefined
        /\ ~o.customFormatErrorFn /\ ~o.formatError
        /\ o.wxParams # Undefined
        /\ o.wxParams.operationName = Undefined /\ o.wxParams.raw = Undefined
        /\ \/ /\ o.wxParams.query = Str(QQuery) /\ o.wxParams.variables = Str(JSONObjectText)
              /\ o.customValidateFn = Undefined
           \/ /\ o.wxParams.query = Str(QSyntaxError) /\ o.wxParams.variables = Undefined
              /\ o.customValidateFn = Undefined
           \/ /\ o.wxParams.query = Str(QQuery) /\ o.wxParams.variables = Undefined
              /\ o.customValidateFn = ThrowingFn("null")}

Invocations ==
    {Invoked("wx", o, Unset, Unset) : o \in ConcWXOptions}
    \cup {Invoked("http", [t |-> "function", v |-> "options"], req, EmptyResponse(FALSE)) :
             req \in ConcHTTPRequests}

InitConc == \E a \in Invocations, b \in Invocations : Running(a) /\ suspended = b

NextConc == graphqlWXServer \/ graphqlMiddleware \/ Switch

SpecConc == InitConc /\ [][NextConc]_vars

\* An invocation goes on as long as it has a step to take: an awaited
\* collaborator answers, and the code between two awaits runs to the next.
FairSpec == Spec /\ WF_vars(Next)

(***************************************************************************)
(* What the claims speak about.                                            *)
(***************************************************************************)
Done == pc = "done"

\* The engine and executor calls of the invocation, in order.
PipelineCalls == SelectSeq(calls, LAMBDA c : c # "resolveOptions")

Called(fn) == \E i \in 1..Len(calls) : calls[i] = fn

\* The last write on the HTTP response, and the envelope a JSON write carries.
LastWrite == response.writes[Len(response.writes)]
ExplorerWritten == Len(response.writes) > 0 /\ LastWrite.type = "text/html"
JsonWritten == Len(response.writes) > 0 /\ LastWrite.type = "application/json"
SentEnvelope == IF LastWrite.via = "json" THEN LastWrite.payload ELSE LastWrite.payload.json

\* The three conditions of the explorer, read from the request and the
\* caller's options.
RawRequested == request.url.raw # Null \/ request.body.raw # Undefined
PrefersHTML == request.accept = "html"
GraphiQLEnabled ==
    /\ optionsData # Unset
    /\ optionsData.graphiql \notin {Undefined, Null, Bool("false")}
ExplorerEligible == ~RawRequested /\ PrefersHTML /\ GraphiQLEnabled

\* The variables value an extractor reads.
GivenVariables ==
    IF variant = "wx" THEN options.wxParams.variables
    ELSE IF request.url.variables # Null THEN request.url.variables
         ELSE request.body.variables

VariablesAreBrokenJSON ==
    /\ variant = "wx" => options.wxParams # Undefined
    /\ GivenVariables.t = "string"
    /\ GivenVariables.v \in {JSONBrokenText, JSONEmptyText}

\* C1: in the HTTP variant, a GET or POST request with a schema, no query and
\* no eligible explorer is answered with status 400 and a non-empty errors list.
C1_MissingQueryIs400 ==
    (/\ variant = "http" /\ Done
     /\ optionsData # Unset /\ ~IsNullish(optionsData.schema)
     /\ request.method \in {"GET", "POST"}
     /\ params # Unset /\ IsNullish(params.query)
     /\ ~ExplorerEligible)
    => /\ response.statusCode = 400
       /\ JsonWritten
       /\ Len(SentEnvelope.errors) > 0

\* C2: in both variants, variables given as a string that is no JSON end the
\* pipeline in a failure of status 400 that reports 'Variables are invalid
\* JSON.', and parse, validate and execute are not invoked.  Stated for the
\* requests whose options resolve to an object, where no other failure can
\* take the place of this one.
C2_BrokenVariablesIs400 ==
    (Done /\ VariablesAreBrokenJSON /\ (variant = "http" => optionsData # Unset))
    => /\ ~Called("parse") /\ ~Called("validate") /\ ~Called("execute")
       /\ IF variant = "wx"
          THEN /\ Len(returned.errors) = 1
               /\ returned.errors[1].statusCode = 400
               /\ returned.errors[1].message = "Variables are invalid JSON."
          ELSE /\ response.statusCode = 400
               /\ JsonWritten
               /\ Len(SentEnvelope.errors) = 1
               /\ SentEnvelope.errors[1].message = "Variables are invalid JSON."

\* A GET request of the HTTP variant that passed parsing and validation and
\* whose selected operation is a mutation.
MutationOnGet ==
    /\ variant = "http"
    /\ request.method = "GET"
    /\ documentAST # Unset /\ documentAST.source = QMutation
    /\ params.operationName \in {Null, Str("RollDice")}
    /\ Len(PipelineCalls) >= 3 /\ PipelineCalls[3] = "validate"

\* C3: in the HTTP variant a GET request whose selected operation is a mutation
\* is never executed; without an eligible explorer the response has status 405
\* and the header Allow: POST, with one the explorer page is rendered.
C3_MutationOnGetIs405 ==
    (Done /\ MutationOnGet)
    => /\ ~Called("execute")
       /\ IF ExplorerEligible
          THEN ExplorerWritten
          ELSE /\ response.statusCode = 405
               /\ response.headers["Allow"] = "POST"
               /\ JsonWritten

\* The failure the boundary turns into an envelope.
FailureEnvelope(error) ==
    [data |-> Undefined,
     errors |-> IF "graphqlErrors" \in DOMAIN error THEN error.graphqlErrors ELSE <<error>>]

\* C4: a failure raised at any step is caught at the pipeline boundary:
\* graphqlWXServer always goes on to return an envelope, and after a failure
\* the envelope has data undefined and, as errors, the failure's attached
\* GraphQL errors when it has them, otherwise the failure itself alone.
C4_FailureBecomesEnvelope ==
    /\ (variant = "wx" /\ ~Done) => ENABLED graphqlWXServer
    /\ (variant = "wx" /\ err # Unset) => pc \in {"catch", "return", "done"}
    /\ (variant = "wx" /\ Done) => returned = result /\ "data" \in DOMAIN returned
    /\ (variant = "wx" /\ Done /\ err # Unset) => returned = FailureEnvelope(err)
    /\ (variant = "http" /\ Done /\ err # Unset) => result = FailureEnvelope(err)

\* The formatter the caller's options select.
ExpectedFormatter ==
    LET o == IF variant = "wx" THEN options ELSE optionsData
    IN  IF o = Unset THEN "formatError"
        ELSE IF o.customFormatErrorFn THEN "customFormatErrorFn"
        ELSE IF o.formatError THEN "options.formatError"
        ELSE "formatError"

\* The errors list that leaves the handler.
OutputErrors ==
    IF variant = "wx" THEN returned.errors
    ELSE IF ExplorerWritten THEN LastWrite.payload.graphiql.result.errors
    ELSE SentEnvelope.errors

\* C5: in both variants every error of the result's errors list leaves the
\* handler mapped through the formatting function the options select
\* (customFormatErrorFn, else formatError, else the engine's), in order.
C5_ErrorsAreFormatted ==
    (Done /\ result # Unset /\ "errors" \in DOMAIN result)
    => OutputErrors = [i \in 1..Len(result.errors) |->
                         ApplyFormat(ExpectedFormatter, result.errors[i])]

\* The checks before execution, read from the inputs of the invocation.
GivenSchema == IF variant = "wx" THEN options.schema ELSE optionsData.schema

PipelineEntered == params # Unset /\ (variant = "http" => optionsData # Unset)

\* The validate function the caller gave, if any.
GivenValidateFn ==
    IF variant = "wx" THEN options.customValidateFn ELSE optionsData.customValidateFn

Fails(i) ==
    CASE i = 1 -> IsNullish(GivenSchema)
      [] i = 2 -> variant = "http" /\ request.method \notin {"GET", "POST"}
      [] i = 3 -> IsNullish(params.query)
      [] i = 4 -> GivenSchema = Obj("invalidSchema")
      [] i = 5 -> params.query = Str(QSyntaxError)
      [] i = 6 -> GivenValidateFn # Undefined \/ params.query = Str(QUnknownField)
      [] i = 7 -> /\ variant = "http" /\ request.method = "GET"
                  /\ params.query = Str(QMutation)
                  /\ params.operationName \in {Null, Str("RollDice")}

\* The earliest failing check in the order schema presence, method, query
\* presence, schema validation, parse, document validation, GET guard; 8 when
\* every check passes.
FirstFailing ==
    IF \E i \in 1..7 : Fails(i)
    THEN CHOOSE i \in 1..7 : Fails(i) /\ \A j \in 1..(i - 1) : ~Fails(j)
    ELSE 8

CheckMessage(i) ==
    CASE i = 1 -> "GraphQL middleware options must contain a schema."
      [] i = 2 -> "GraphQL only supports GET and POST requests."
      [] i = 3 -> "Must provide query string."
      [] i = 4 -> "GraphQL schema validation error."
      [] i = 5 -> "GraphQL syntax error."
      [] i = 6 -> IF GivenValidateFn # Undefined THEN Thrown("Error").message
                  ELSE "GraphQL validation error."
      [] i = 7 -> "Can only perform a mutation operation from a POST request."

CallsBefore(i) ==
    CASE i \in 1..3 -> <<>>
      [] i = 4 -> <<"validateSchema">>
      [] i = 5 -> <<"validateSchema", "parse">>
      [] i \in 6..7 -> <<"validateSchema", "parse", "validate">>
      [] i = 8 -> <<"validateSchema", "parse", "validate", "execute">>

IsPrefix(a, b) == Len(a) <= Len(b) /\ \A i \in 1..Len(a) : a[i] = b[i]

\* C6: in the cloud-function variant, when schema presence, query presence,
\* schema validation, parse and document validation pass, the executor is
\* invoked once with the caller's schema, rootValue and context, the parsed
\* document and the event's variables and operationName, and what
\* graphqlWXServer returns is the executor's result.
C6_ExecutesOnceAndReturnsResult ==
    (variant = "wx" /\ Done /\ PipelineEntered /\ FirstFailing = 8)
    => /\ Len(executions) = 1
       /\ executions[1].args =
            [schema |-> options.schema,
             document |-> [kind |-> "Document", source |-> options.wxParams.query.v],
             rootValue |-> options.rootValue,
             contextValue |-> options.context,
             variableValues |->
                 IF GivenVariables.t = "string" THEN JSONParse(GivenVariables.v)
                 ELSE IF GivenVariables.t \in {"object", "null"} THEN GivenVariables
                 ELSE Null,
             operationName |->
                 IF options.wxParams.operationName.t = "string"
                 THEN options.wxParams.operationName ELSE Null]
       /\ executions[1].outcome.ok => returned = executions[1].outcome.value

C6_Witness ==
    /\ variant = "wx" /\ Done /\ Len(executions) = 1
    /\ options.wxParams.variables = Str(JSONObjectText)
    /\ options.context = Obj("context")
    /\ returned = [data |-> Obj("data"), errors |-> ErrorList("field", 2)]

\* C7: the checks run in the order schema presence, method (HTTP), query
\* presence, schema validation, parse, document validation, GET guard (HTTP),
\* execute; the reported failure is that of the earliest failing check, no
\* later step is invoked after it, and the executor runs only if all passed.
C7_FirstFailureWins ==
    /\ IsPrefix(PipelineCalls,
                <<"validateSchema", "parse", "validate", "execute", "extensions">>)
    /\ (PipelineEntered /\ Called("execute")) => FirstFailing = 8
    /\ (Done /\ PipelineEntered /\ FirstFailing < 8)
       => /\ PipelineCalls = CallsBefore(FirstFailing)
          /\ \/ err # Unset /\ err.message = CheckMessage(FirstFailing)
             \/ /\ variant = "http" /\ FirstFailing \in {3, 7}
                /\ err = Unset /\ ExplorerWritten
    /\ (Done /\ PipelineEntered /\ FirstFailing = 8)
       => IsPrefix(CallsBefore(8), PipelineCalls)

C7_Witness ==
    /\ variant = "http" /\ Done /\ PipelineEntered
    /\ Fails(2) /\ Fails(3) /\ Fails(4) /\ ~Fails(1)
    /\ err.message = CheckMessage(2)
    /\ PipelineCalls = <<>>

\* C8: the parameters an extractor returns have the declared shape: query and
\* operationName a string or null, variables a mapping or null, raw a boolean.
C8_ParamsHaveDeclaredShape ==
    params # Unset
    => /\ params.query.t \in {"string", "null"}
       /\ params.operationName.t \in {"string", "null"}
       /\ params.variables.t \in {"object", "null"}
       /\ params.raw.t = "boolean"

\* How often the options were resolved.
ResolveCount == Len(SelectSeq(calls, LAMBDA c : c = "resolveOptions"))

\* C9: in the HTTP variant the options are resolved once per request on every
\* path, the path of a failed parameter extraction included, and a resolved
\* value that is null or no object fails the request with an internal error
\* before any step of the pipeline.
C9_OptionsResolvedOnce ==
    variant = "http"
    => /\ ResolveCount <= 1
       /\ Done => ResolveCount = 1 /\ optionsResult # Unset
       /\ pc \notin {"start", "resolveOptions", "resolveOptionsOnError"} => ResolveCount = 1
       /\ (Done /\ (IsNullish(optionsResult) \/ TypeOf(optionsResult) # "object"))
          => /\ PipelineCalls = <<>>
             /\ optionsData = Unset
             /\ response.statusCode = 500
             /\ result.errors = <<err>> /\ err.name = "Error"
             /\ JsonWritten

C9_Witness ==
    /\ variant = "http" /\ Done
    /\ params = Unset
    /\ optionsResult = Null
    /\ ResolveCount = 1
    /\ response.statusCode = 500

\* C10: in the HTTP variant the explorer page is written only if raw output
\* was not requested, HTML is preferred over JSON and the graphiql option is
\* not disabled (absent counts as disabled); when one of the three fails the
\* response is a JSON envelope.
C10_ExplorerOnlyWhenEligible ==
    variant = "http"
    => /\ \A i \in 1..Len(response.writes) :
            response.writes[i].type = "text/html" => ExplorerEligible
       /\ (Done /\ ~ExplorerEligible)
          => /\ Len(response.writes) = 1
             /\ JsonWritten
             /\ "data" \in DOMAIN result

C10_Witness ==
    /\ variant = "http" /\ Done
    /\ ExplorerWritten
    /\ optionsData.graphiql = Obj("graphiqlOptions")
    /\ result # Unset /\ "errors" \in DOMAIN result

\* The status code a failure was raised with: the statusCode given to
\* httpError, and 500 for an error raised without one.
RaisedStatus(error) == IF "statusCode" \in DOMAIN error THEN error.statusCode ELSE 500

\* C11: in the HTTP variant, a request that ends with a result envelope is
\* answered with the status code its failure was raised with (400, 405 or
\* 500) when the pipeline failed, otherwise with 500 when the executor's
\* result has no data, otherwise with 200.
C11_StatusFollowsOutcome ==
    (variant = "http" /\ Done /\ result # Unset)
    => response.statusCode =
         IF err # Unset THEN RaisedStatus(err)
         ELSE IF NoData(result) THEN 500 ELSE 200

\* What graphqlWXServer(o) returns when it runs alone, the collaborators
\* answering k errors where they report some and the executor answering r.
AloneWX(o, k, r) ==
    LET p == getGraphQLParams(o.wxParams)
        d == parseFn(p.value.query)
        failure ==
            IF ~p.ok THEN p.error
            ELSE IF IsNullish(o.schema)
            THEN httpError(500, "GraphQL middleware options must contain a schema.", NoDetails)
            ELSE IF IsNullish(p.value.query)
            THEN httpError(400, "Must provide query string.", NoDetails)
            ELSE IF SchemaInvalid(o.schema)
            THEN httpError(500, "GraphQL schema validation error.",
                           [graphqlErrors |-> ErrorList("schema", k)])
            ELSE IF ~d.ok
            THEN httpError(400, "GraphQL syntax error.", [graphqlErrors |-> <<d.error>>])
            ELSE IF o.customValidateFn # Undefined THEN Thrown(o.customValidateFn.v)
            ELSE IF DocumentInvalid(d.value)
            THEN httpError(400, "GraphQL validation error.",
                           [graphqlErrors |-> ErrorList("validation", k)])
            ELSE IF ~r.ok
            THEN httpError(400, "GraphQL execution context error.",
                           [graphqlErrors |-> <<r.error>>])
            ELSE Unset
    IN  IF failure = Unset THEN r.value
        ELSE IF Unreadable(failure) THEN Rejected(NotReadable(failure))
        ELSE [data |-> Undefined, errors |-> wxFailureErrors(failure)]

\* How the try block of graphqlMiddleware ends when the request runs alone:
\* with the explorer page, with a failure or with a result.  resolved is
\* what the options resolve to, x what the extensions function answers.
AloneTry(req, resolved, k, r, x) ==
    LET p == getGraphQLParamsHTTP(req)
        o == resolveOptions(resolved)
        d == parseFn(p.value.query)
        show == ShowGraphiQL(req, p.value, o.value)
    IN  IF ~p.ok THEN [err |-> IF o.ok THEN p.error ELSE o.error]
        ELSE IF ~o.ok THEN [err |-> o.error]
        ELSE IF IsNullish(o.value.schema)
        THEN [err |-> httpError(500, "GraphQL middleware options must contain a schema.",
                                NoDetails)]
        ELSE IF req.method \notin {"GET", "POST"}
        THEN [err |-> httpError(405, "GraphQL only supports GET and POST requests.",
                                [headers |-> [Allow |-> "GET, POST"]])]
        ELSE IF IsNullish(p.value.query)
        THEN IF show THEN [explorer |-> Undefined]
             ELSE [err |-> httpError(400, "Must provide query string.", NoDetails)]
        ELSE IF SchemaInvalid(o.value.schema)
        THEN [err |-> httpError(500, "GraphQL schema validation error.",
                                [graphqlErrors |-> ErrorList("schema", k)])]
        ELSE IF ~d.ok
        THEN [err |-> httpError(400, "GraphQL syntax error.", [graphqlErrors |-> <<d.error>>])]
        ELSE IF o.value.customValidateFn # Undefined
        THEN [err |-> Thrown(o.value.customValidateFn.v)]
        ELSE IF DocumentInvalid(d.value)
        THEN [err |-> httpError(400, "GraphQL validation error.",
                                [graphqlErrors |-> ErrorList("validation", k)])]
        ELSE IF GuardStops(req, d.value, p.value.operationName)
        THEN IF show THEN [explorer |-> p.value]
             ELSE [err |-> httpError(405,
                       GuardMessage(getOperationAST(d.value, p.value.operationName).operation),
                       [headers |-> [Allow |-> "POST"]])]
        ELSE IF ~r.ok
        THEN [err |-> httpError(400, "GraphQL execution context error.",
                                [graphqlErrors |-> <<r.error>>])]
        ELSE IF ~o.value.extensions THEN [result |-> r.value]
        ELSE IF ~x.ok THEN [err |-> x.error]
        ELSE [result |-> IF IsNullish(x.value) THEN r.value
                         ELSE [extensions |-> x.value] @@ r.value]

\* The explorer decision of graphqlMiddleware when the request runs alone:
\* taken once the schema and the method have passed.
AloneShows(req, resolved) ==
    LET p == getGraphQLParamsHTTP(req)
        o == resolveOptions(resolved)
    IN  /\ p.ok /\ o.ok /\ ~IsNullish(o.value.schema) /\ req.method \in {"GET", "POST"}
        /\ ShowGraphiQL(req, p.value, o.value)

\* Whether graphqlMiddleware rejects when the request runs alone: the value
\* its boundary catches is null or undefined.
AloneRejects(req, resolved, k, r, x) ==
    LET out == AloneTry(req, resolved, k, r, x)
    IN  "err" \in DOMAIN out /\ Unreadable(out.err)

\* The response graphqlMiddleware leaves on resp when the request runs alone.
AloneHTTP(req, resp, resolved, k, r, x) ==
    LET p == getGraphQLParamsHTTP(req)
        o == resolveOptions(resolved)
        out == AloneTry(req, resolved, k, r, x)
        reached == p.ok /\ o.ok /\ ~IsNullish(o.value.schema) /\ req.method \in {"GET", "POST"}
        show == AloneShows(req, resolved)
        gOptions == IF reached /\ TypeOf(graphiqlOf(o.value)) # "boolean"
                    THEN graphiqlOf(o.value) ELSE Unset
        isPretty == o.ok /\ o.value.pretty
        fmt == IF o.ok THEN ChooseFormat(o.value, "formatError") ELSE "formatError"
        failed == "err" \in DOMAIN out
        res == IF failed THEN [data |-> Undefined, errors |-> httpFailureErrors(out.err)]
               ELSE out.result
        r0 == IF failed THEN setHeaders([resp EXCEPT !.statusCode = StatusOf(out.err)], out.err)
              ELSE resp
        r1 == IF r0.statusCode = 200 /\ NoData(res) THEN [r0 EXCEPT !.statusCode = 500] ELSE r0
        formatted == FormatResult(res, fmt)
    IN  IF "explorer" \in DOMAIN out
        THEN respondWithGraphiQL(resp, gOptions, out.explorer, Undefined)
        ELSE IF failed /\ Unreadable(out.err) THEN resp
        ELSE IF show THEN respondWithGraphiQL(r1, gOptions, p.value, formatted)
        ELSE IF ~isPretty /\ r1.json THEN responseJson(r1, formatted)
        ELSE sendResponse(r1, "application/json",
                          Stringify(formatted, IF isPretty THEN 2 ELSE 0))

\* The executor's answer to the invocation l, when it was called.
ExecutorAnswers(l) ==
    IF l.executions = <<>> THEN {Ok([data |-> Obj("data")])}
    ELSE {l.executions[1].outcome}

\* The invocation l has ended (returned or rejected) as it ends alone on its
\* own input, with the answers its own collaborators gave.
AsIfAlone(l) ==
    \E k \in 1..MaxErrors, r \in ExecutorAnswers(l), x \in ExtensionsOutcomes :
        IF l.variant = "wx"
        THEN /\ l.returned = AloneWX(l.options, k, r)
             /\ (l.pc = "rejected") = ("rejected" \in DOMAIN l.returned)
        ELSE /\ l.response = AloneHTTP(l.request, EmptyResponse(l.response.json),
                                       l.optionsResult, k, r, x)
             /\ (l.pc = "rejected") = AloneRejects(l.request, l.optionsResult, k, r, x)
             /\ l.showGraphiQL = AloneShows(l.request, l.optionsResult)
             /\ l.showGraphiQL = ("text/html" \in {l.response.writes[i].type :
                                                     i \in 1..Len(l.response.writes)})
                \/ l.pc = "rejected"

\* The asynchronous steps in the order of the handler's body.
StepOrder == <<"resolveOptions", "validateSchema", "parse", "validate", "execute", "extensions">>

\* Each step of l was called at most once, after the steps before it.
StepsInOrder(l) ==
    /\ IsPrefix(SelectSeq(l.calls, LAMBDA c : c # "resolveOptions"),
                SelectSeq(StepOrder, LAMBDA c : c # "resolveOptions"))
    /\ Len(SelectSeq(l.calls, LAMBDA c : c = "resolveOptions")) <= 1
    /\ Len(l.executions) <= 1

\* C12: when two invocations interleave at their awaits, each one ends with
\* the envelope (and, for HTTP, the status, headers, body and explorer
\* decision) it ends with alone on the same input, and within each
\* invocation every asynchronous step is called once and in order.
C12_InvocationsAreIsolated ==
    suspended # Unset
    => \A l \in {Locals, suspended} :
          /\ StepsInOrder(l)
          /\ l.pc \in {"done", "rejected"} => AsIfAlone(l)

\* An HTTP invocation has answered 200 with a pretty body while the other
\* one, which asked for a plain body, still waits for its extensions function.
C12_Witness ==
    /\ suspended # Unset
    /\ variant = "http" /\ Done
    /\ suspended.variant = "http" /\ suspended.pc = "extensions"
    /\ Len(executions) = 1
    /\ response.statusCode = 200
    /\ pretty /\ ~suspended.pretty

\* How many bodies were written on the response.
BodiesWritten == Len(response.writes)

\* The handler has ended: its promise is resolved or rejected.
Settled == pc \in {"done", "rejected"}

\* The invocation ended at one of the two explorer short-circuits: no result
\* envelope was made.
ShortCircuited == Done /\ result = Unset

\* C13: in the HTTP variant every request ends, and ends with exactly one
\* body written, the explorer page or the JSON envelope, never two and never
\* none: after an explorer short-circuit the status is untouched and the page
\* embeds no result, and on every other path the one body is written by the
\* explorer render, response.json or sendResponse.
C13_ExactlyOneBody ==
    /\ [](variant = "http"
           => /\ BodiesWritten <= 1
              /\ ~Settled => BodiesWritten = 0
              /\ Settled => BodiesWritten = 1
              /\ ShortCircuited
                 => /\ ExplorerWritten
                    /\ response.statusCode = 200
                    /\ LastWrite.payload.graphiql.result = Undefined
              /\ (Settled /\ ~ShortCircuited)
                 => /\ LastWrite.via \in {"end", "json"}
                    /\ ExplorerWritten = showGraphiQL
                    /\ LastWrite.via = "json" => ~pretty /\ response.json)
    /\ <>(variant = "http" => Settled /\ BodiesWritten = 1)

====
